---- MODULE Spec2Model ----
(***************************************************************************)
(* Model of src/index.js: one /media-stream session, i.e. one run of the   *)
(* handler registered at index.js:63.  The session owns the telephony      *)
(* WebSocket `connection`, the AI WebSocket `openAiWs`, the closure        *)
(* variable `streamSid` and the settling timer armed by the 'open'         *)
(* handler.  Every registered callback is one action.  A "send" is an      *)
(* invocation of send() on a socket; each invocation is logged together    *)
(* with the readyState the socket had at that moment.  `connection` is the *)
(* telephony WebSocket itself (it has on('message'), on('close') and       *)
(* send), and both sockets follow the ws library: 'open' is emitted once,  *)
(* with readyState OPEN; close() moves an open socket to CLOSING; no       *)
(* 'message' follows 'close' or 'error'.                                   *)
(***************************************************************************)
EXTENDS Integers, Sequences, FiniteSets, TLC

(***************************************************************************)
(* Bounds of the model.                                                    *)
(***************************************************************************)
\* inbound messages (telephony + AI) handled in one session
MaxMsgs == 3

\* longest `delta` string tried on the base64 round trip
MaxDeltaLen == 4

\* inbound messages handled by each of two concurrent sessions
MaxPeerMsgs == 2

(***************************************************************************)
(* JavaScript values.                                                      *)
(***************************************************************************)
Null == "null"
Undefined == "undefined"

\* WebSocket.readyState (ws): CONNECTING, OPEN, CLOSING, CLOSED
ReadyStates == {"CONNECTING", "OPEN", "CLOSING", "CLOSED"}

\* stream identifiers a telephony `start` event may carry (start.streamSid);
\* Undefined is `start: {}`, an object without the field
Sids == {"SD123", "SD456", Undefined}

\* audio payloads a telephony `media` event may carry (media.payload);
\* Undefined is `media: {}`
Payloads == {"AAAA", "QUJD", Undefined}

\* `delta` strings of an AI event, as sequences of characters: canonical
\* base64 ("QUJD"), unpadded base64 ("QQ"), and the empty string
Deltas == { <<"Q", "U", "J", "D">>, <<"Q", "Q">>, <<>> }

(***************************************************************************)
(* LOG_EVENT_TYPES, index.js:30-38.                                        *)
(***************************************************************************)
LOG_EVENT_TYPES ==
    { "response.content.done", "rate_limits.updated", "response.done",
      "input_audio_buffer.committed", "input_audio_buffer.speech_stopped",
      "input_audio_buffer.speech_started", "session.created" }

(***************************************************************************)
(* Buffer.from(s, 'base64').toString('base64'), index.js:116.              *)
(* Decoding stops at the first '=', skips characters outside the alphabet  *)
(* (the URL-safe '-' and '_' count as '+' and '/'), and drops the bits of  *)
(* a trailing partial group; encoding emits the canonical padded form.     *)
(***************************************************************************)
B64Chars ==
    << "A","B","C","D","E","F","G","H","I","J","K","L","M","N","O","P",
       "Q","R","S","T","U","V","W","X","Y","Z","a","b","c","d","e","f",
       "g","h","i","j","k","l","m","n","o","p","q","r","s","t","u","v",
       "w","x","y","z","0","1","2","3","4","5","6","7","8","9","+","/" >>

IsB64Char(c) == c \in {"-", "_"} \/ \E i \in 1..64 : B64Chars[i] = c

B64Val(c) ==
    IF c = "-" THEN 62
    ELSE IF c = "_" THEN 63
    ELSE (CHOOSE i \in 1..64 : B64Chars[i] = c) - 1

\* the characters before the first '='
RECURSIVE B64BeforePad(_)
B64BeforePad(s) ==
    IF s = <<>> \/ Head(s) = "=" THEN <<>>
    ELSE <<Head(s)>> \o B64BeforePad(Tail(s))

\* the 6-bit values of the legal characters
RECURSIVE B64Vals(_)
B64Vals(s) ==
    IF s = <<>> THEN <<>>
    ELSE IF IsB64Char(Head(s)) THEN <<B64Val(Head(s))>> \o B64Vals(Tail(s))
    ELSE B64Vals(Tail(s))

RECURSIVE B64Bytes(_)
B64Bytes(v) ==
    IF Len(v) >= 4 THEN
        << (v[1] * 4) + (v[2] \div 16),
           ((v[2] % 16) * 16) + (v[3] \div 4),
           ((v[3] % 4) * 64) + v[4] >> \o B64Bytes(SubSeq(v, 5, Len(v)))
    ELSE IF Len(v) = 3 THEN
        << (v[1] * 4) + (v[2] \div 16), ((v[2] % 16) * 16) + (v[3] \div 4) >>
    ELSE IF Len(v) = 2 THEN
        << (v[1] * 4) + (v[2] \div 16) >>
    ELSE <<>>

\* Buffer.from(s, 'base64')
Base64Decode(s) == B64Bytes(B64Vals(B64BeforePad(s)))

\* buf.toString('base64')
RECURSIVE Base64Encode(_)
Base64Encode(b) ==
    IF Len(b) >= 3 THEN
        << B64Chars[(b[1] \div 4) + 1],
           B64Chars[((b[1] % 4) * 16) + (b[2] \div 16) + 1],
           B64Chars[((b[2] % 16) * 4) + (b[3] \div 64) + 1],
           B64Chars[(b[3] % 64) + 1] >> \o Base64Encode(SubSeq(b, 4, Len(b)))
    ELSE IF Len(b) = 2 THEN
        << B64Chars[(b[1] \div 4) + 1],
           B64Chars[((b[1] % 4) * 16) + (b[2] \div 16) + 1],
           B64Chars[((b[2] % 16) * 4) + 1], "=" >>
    ELSE IF Len(b) = 1 THEN
        << B64Chars[(b[1] \div 4) + 1], B64Chars[((b[1] % 4) * 16) + 1], "=", "=" >>
    ELSE <<>>

\* mutant of Base64RoundTrip: the re-encoding leaves the padding out
Base64RoundTrip_Unpadded(s) == B64BeforePad(Base64Encode(Base64Decode(s)))

Base64RoundTrip(s) == Base64Encode(Base64Decode(s))

(***************************************************************************)
(* Inbound messages.                                                       *)
(*   shape   "nonjson": JSON.parse throws; "null": JSON.parse yields null, *)
(*           so reading .event / .type throws; "object": a JSON object     *)
(*   tag     data.event (telephony) or response.type (AI)                  *)
(*   hasBody telephony: the `media` / `start` member is present;           *)
(*           AI: the `delta` member is present                             *)
(*   val     media.payload, start.streamSid, or delta                      *)
(***************************************************************************)
TelMsg(shape, tag, hasBody, val) ==
    [shape |-> shape, tag |-> tag, hasBody |-> hasBody, val |-> val]

TelMsgs ==
    { TelMsg("nonjson", Undefined, FALSE, Undefined),
      TelMsg("null", Undefined, FALSE, Undefined),
      TelMsg("object", "media", FALSE, Undefined),
      TelMsg("object", "start", FALSE, Undefined),
      TelMsg("object", "stop", FALSE, Undefined) }
    \cup { TelMsg("object", "media", TRUE, p) : p \in Payloads }
    \cup { TelMsg("object", "start", TRUE, s) : s \in Sids }

AiMsg(shape, tag, hasBody, val) ==
    [shape |-> shape, tag |-> tag, hasBody |-> hasBody, val |-> val]

AiMsgs ==
    { AiMsg("nonjson", Undefined, FALSE, <<>>),
      AiMsg("null", Undefined, FALSE, <<>>),
      AiMsg("object", "session.updated", FALSE, <<>>),
      AiMsg("object", "response.done", FALSE, <<>>),
      AiMsg("object", "response.text.delta", FALSE, <<>>),
      AiMsg("object", "response.audio.delta", FALSE, <<>>) }
    \cup { AiMsg("object", "response.audio.delta", TRUE, d) : d \in Deltas }

(***************************************************************************)
(* State of one session.                                                   *)
(***************************************************************************)
VARIABLES
    aiState,       \* openAiWs.readyState, index.js:66 (read at 132, 156)
    aiInbound,     \* openAiWs still delivers 'message' events, index.js:100
    telState,      \* connection, index.js:63: "OPEN", "CLOSING" after a
                   \* transport error, "CLOSED" after its 'close' event
    streamSid,     \* let streamSid, index.js:73
    timerPending,  \* setTimeout(sendSessionUpdate, 250), index.js:96, armed
                   \* and not yet run
    aiSent,        \* invocations of openAiWs.send (index.js:90, 138), in order
    telSent,       \* invocations of connection.send (index.js:118), in order
    aiCloseCalls,  \* invocations of openAiWs.close(), index.js:156
    telMediaIn,    \* history: telephony media events handled, in order
    startsIn,      \* history: streamSids carried by the start events, in order
    aiDeltaIn,     \* history: non-empty deltas of the AI audio events, in order
    lastEvent,     \* history: the callback that ran last
    nMsgs,         \* inbound messages handled so far
    proc,          \* the process: start-up phase, credential, exit status
    peer           \* a second, concurrent session: its own closure state

vars == << aiState, aiInbound, telState, streamSid, timerPending, aiSent,
           telSent, aiCloseCalls, telMediaIn, startsIn, aiDeltaIn, lastEvent,
           nMsgs, proc, peer >>

\* the state the program itself holds
progVars == << aiState, aiInbound, telState, streamSid, timerPending, aiSent,
               telSent, aiCloseCalls >>

\* the callback that ran, its message, and openAiWs.readyState when it ran
Event(src, msg) == [src |-> src, msg |-> msg, aiAt |-> aiState]

NoMsg == TelMsg("none", Undefined, FALSE, Undefined)

\* the process once fastify.listen has bound the port, index.js:171-177: the
\* credential check of index.js:14-17 passed and nothing called process.exit
Listening == [phase |-> "listening", hasKey |-> TRUE, exitCode |-> 0]

\* the closure state of a session at the end of the route handler,
\* index.js:63-73: telephony socket accepted, AI socket constructed,
\* streamSid = null
NewSession ==
    [telState |-> "OPEN", aiState |-> "CONNECTING", aiInbound |-> FALSE,
     streamSid |-> Null, timerPending |-> FALSE, aiSent |-> <<>>,
     telSent |-> <<>>, aiCloseCalls |-> 0, nMsgs |-> 0]

\* a connection that has not been accepted: the handler has not run
NoSession ==
    [telState |-> "NONE", aiState |-> "NONE", aiInbound |-> FALSE,
     streamSid |-> Null, timerPending |-> FALSE, aiSent |-> <<>>,
     telSent |-> <<>>, aiCloseCalls |-> 0, nMsgs |-> 0]

\* index.js:63-73: the telephony socket is accepted (open), the AI socket is
\* constructed (connecting), streamSid = null, nothing sent, no timer armed;
\* the process is listening and no other connection has been accepted
Init ==
    /\ aiState = "CONNECTING"
    /\ aiInbound = FALSE
    /\ telState = "OPEN"
    /\ streamSid = Null
    /\ timerPending = FALSE
    /\ aiSent = <<>>
    /\ telSent = <<>>
    /\ aiCloseCalls = 0
    /\ telMediaIn = <<>>
    /\ startsIn = <<>>
    /\ aiDeltaIn = <<>>
    /\ lastEvent = [src |-> "init", msg |-> NoMsg, aiAt |-> "CONNECTING"]
    /\ nMsgs = 0
    /\ proc = Listening
    /\ peer = NoSession

(***************************************************************************)
(* Messages the program builds.                                            *)
(***************************************************************************)
\* sessionUpdate, index.js:76-87 (the configuration fields are constants)
sessionUpdate == [type |-> "session.update", audio |-> Undefined]

\* mutant of audioAppend: the payload is not copied into the message
audioAppend_NoPayload(payload) ==
    [type |-> "input_audio_buffer.append", audio |-> Undefined]

\* audioAppend, index.js:133-136
audioAppend(payload) == [type |-> "input_audio_buffer.append", audio |-> payload]

\* audioDelta, index.js:113-117
audioDelta(sid, delta) ==
    [event |-> "media", streamSid |-> sid, payload |-> Base64RoundTrip(delta)]

\* mutant of AiSend: the newest message overtakes the ones sent before
AiSend_Prepend(m) ==
    << [type |-> m.type, audio |-> m.audio, at |-> aiState] >> \o aiSent

\* openAiWs.send(JSON.stringify(m)), index.js:90 and 138
AiSend(m) == Append(aiSent, [type |-> m.type, audio |-> m.audio, at |-> aiState])

\* connection.send(JSON.stringify(f)), index.js:118
TelSend(f) ==
    Append(telSent, [event |-> f.event, streamSid |-> f.streamSid,
                     payload |-> f.payload, at |-> telState])

\* mutant of IsOpen: a socket that is still connecting counts as ready
IsOpen_OrConnecting(st) == st \in {"CONNECTING", "OPEN"}

\* readyState === WebSocket.OPEN, index.js:132 and 156
IsOpen(rs) == rs = "OPEN"

\* JSON.parse(...) followed by the read of .event / .type, index.js:102-104
\* and 128-130: throws on text that is not JSON and on the JSON value null
ParseThrows(m) == m.shape \in {"nonjson", "null"}

\* mutant of IsAudioDelta: the test on response.delta is missing
IsAudioDelta_NoDeltaCheck(m) == m.tag = "response.audio.delta"

\* response.type === 'response.audio.delta' && response.delta, index.js:112
\* (a missing delta and the empty string are falsy)
IsAudioDelta(m) ==
    m.tag = "response.audio.delta" /\ m.hasBody /\ m.val # <<>>

(***************************************************************************)
(* openAiWs.on('open'), index.js:94-97: the socket is OPEN when the event  *)
(* is emitted; the handler arms the settling timer.                        *)
(***************************************************************************)
AiOpen ==
    /\ aiState = "CONNECTING"
    /\ aiState' = "OPEN"
    /\ aiInbound' = TRUE
    /\ timerPending' = TRUE
    /\ lastEvent' = Event("aiOpen", NoMsg)
    /\ UNCHANGED << telState, streamSid, aiSent, telSent, aiCloseCalls,
                    telMediaIn, startsIn, aiDeltaIn, nMsgs >>

\* mutant of SendSessionUpdate: the timer is periodic (setInterval)
SendSessionUpdate_Interval ==
    /\ timerPending
    /\ Len(aiSent) <= MaxMsgs
    /\ timerPending' = TRUE
    /\ aiSent' = AiSend(sessionUpdate)
    /\ lastEvent' = Event("timer", NoMsg)
    /\ UNCHANGED << aiState, aiInbound, telState, streamSid, telSent,
                    aiCloseCalls, telMediaIn, startsIn, aiDeltaIn, nMsgs >>

(***************************************************************************)
(* The timer armed at index.js:96 runs sendSessionUpdate, index.js:75-91:  *)
(* one unconditional openAiWs.send.                                        *)
(***************************************************************************)
SendSessionUpdate ==
    /\ timerPending
    /\ timerPending' = FALSE
    /\ aiSent' = AiSend(sessionUpdate)
    /\ lastEvent' = Event("timer", NoMsg)
    /\ UNCHANGED << aiState, aiInbound, telState, streamSid, telSent,
                    aiCloseCalls, telMediaIn, startsIn, aiDeltaIn, nMsgs >>

(***************************************************************************)
(* openAiWs.on('message'), index.js:100-123.                               *)
(***************************************************************************)
AiMessage(m) ==
    /\ aiInbound
    /\ nMsgs < MaxMsgs
    /\ nMsgs' = nMsgs + 1
    /\ lastEvent' = Event("ai", m)
    /\ IF ParseThrows(m)
         THEN telSent' = telSent                      \* catch, index.js:120-122
         ELSE IF IsAudioDelta(m)
           THEN telSent' = TelSend(audioDelta(streamSid, m.val))
           ELSE telSent' = telSent
    /\ aiDeltaIn' = IF ~ParseThrows(m) /\ IsAudioDelta(m)
                      THEN Append(aiDeltaIn, m.val)
                      ELSE aiDeltaIn
    /\ UNCHANGED << aiState, aiInbound, telState, streamSid, timerPending,
                    aiSent, aiCloseCalls, telMediaIn, startsIn >>

(***************************************************************************)
(* connection.on('message'), index.js:126-152.                             *)
(***************************************************************************)
\* mutant of TelMedia: the readyState check is missing
TelMedia_NoReadyCheck(m) ==
    /\ IF m.hasBody
         THEN aiSent' = AiSend(audioAppend(m.val))
         ELSE aiSent' = aiSent
    /\ telMediaIn' = IF m.hasBody
                       THEN Append(telMediaIn, [payload |-> m.val, at |-> aiState])
                       ELSE telMediaIn
    /\ UNCHANGED << streamSid, startsIn >>

\* case 'media', index.js:131-140; reading data.media.payload throws when
\* the `media` member is missing, before anything is sent
TelMedia(m) ==
    /\ IF IsOpen(aiState) /\ m.hasBody
         THEN aiSent' = AiSend(audioAppend(m.val))
         ELSE aiSent' = aiSent
    /\ telMediaIn' = IF m.hasBody
                       THEN Append(telMediaIn, [payload |-> m.val, at |-> aiState])
                       ELSE telMediaIn
    /\ UNCHANGED << streamSid, startsIn >>

\* mutant of TelStart: the first stream id is kept (assign once)
TelStart_FirstWins(m) ==
    /\ streamSid' = IF m.hasBody /\ streamSid = Null THEN m.val ELSE streamSid
    /\ startsIn' = IF m.hasBody THEN Append(startsIn, m.val) ELSE startsIn
    /\ UNCHANGED << aiSent, telMediaIn >>

\* mutant of TelStart: a missing `start` member does not throw
\* (data.start?.streamSid) and the id becomes undefined
TelStart_NoThrow(m) ==
    /\ streamSid' = IF m.hasBody THEN m.val ELSE Undefined
    /\ startsIn' = IF m.hasBody THEN Append(startsIn, m.val) ELSE startsIn
    /\ UNCHANGED << aiSent, telMediaIn >>

\* mutant of TelStart: a start event after the first is ignored
TelStart_Once(m) ==
    /\ streamSid' = IF m.hasBody /\ startsIn = <<>> THEN m.val ELSE streamSid
    /\ startsIn' = IF m.hasBody THEN Append(startsIn, m.val) ELSE startsIn
    /\ UNCHANGED << aiSent, telMediaIn >>

\* case 'start', index.js:141-144; reading data.start.streamSid throws when
\* the `start` member is missing
TelStart(m) ==
    /\ streamSid' = IF m.hasBody THEN m.val ELSE streamSid
    /\ startsIn' = IF m.hasBody THEN Append(startsIn, m.val) ELSE startsIn
    /\ UNCHANGED << aiSent, telMediaIn >>

\* mutant of TelMessage: an event with an unknown tag ends the stream (the
\* stream id is reset)
TelMessage_OtherResets(m) ==
    /\ telState = "OPEN"
    /\ nMsgs < MaxMsgs
    /\ nMsgs' = nMsgs + 1
    /\ lastEvent' = Event("tel", m)
    /\ IF ParseThrows(m)
         THEN UNCHANGED << aiSent, streamSid, telMediaIn, startsIn >>
         ELSE IF m.tag = "media" THEN TelMedia(m)
         ELSE IF m.tag = "start" THEN TelStart(m)
         ELSE streamSid' = Null /\ UNCHANGED << aiSent, telMediaIn, startsIn >>
    /\ UNCHANGED << aiState, aiInbound, telState, timerPending, telSent,
                    aiCloseCalls, aiDeltaIn >>

TelMessage(m) ==
    /\ telState = "OPEN"
    /\ nMsgs < MaxMsgs
    /\ nMsgs' = nMsgs + 1
    /\ lastEvent' = Event("tel", m)
    /\ IF ParseThrows(m)
         THEN UNCHANGED << aiSent, streamSid, telMediaIn, startsIn >>
         ELSE IF m.tag = "media" THEN TelMedia(m)
         ELSE IF m.tag = "start" THEN TelStart(m)
         ELSE UNCHANGED << aiSent, streamSid, telMediaIn, startsIn >>
    /\ UNCHANGED << aiState, aiInbound, telState, timerPending, telSent,
                    aiCloseCalls, aiDeltaIn >>

(***************************************************************************)
(* connection.on('close'), index.js:155-158: openAiWs.close() puts an open *)
(* AI socket into CLOSING; a socket in any other state is left alone.  The *)
(* event comes after the peer's close or after a transport error.          *)
(***************************************************************************)
TelClose ==
    /\ telState \in {"OPEN", "CLOSING"}
    /\ telState' = "CLOSED"
    /\ IF IsOpen(aiState)
         THEN aiState' = "CLOSING" /\ aiCloseCalls' = aiCloseCalls + 1
         ELSE UNCHANGED << aiState, aiCloseCalls >>
    /\ lastEvent' = Event("telClose", NoMsg)
    /\ UNCHANGED << aiInbound, streamSid, timerPending, aiSent, telSent,
                    telMediaIn, startsIn, aiDeltaIn, nMsgs >>

\* mutant of AiClose: the handler also closes the telephony socket
AiClose_ClosesPeer ==
    /\ aiState \in {"OPEN", "CLOSING"}
    /\ aiState' = "CLOSED"
    /\ aiInbound' = FALSE
    /\ telState' = "CLOSED"
    /\ lastEvent' = Event("aiClose", NoMsg)
    /\ UNCHANGED << streamSid, timerPending, aiSent, telSent,
                    aiCloseCalls, telMediaIn, startsIn, aiDeltaIn, nMsgs >>

(***************************************************************************)
(* openAiWs.on('close'), index.js:161-163: log only.  The event comes      *)
(* after the peer's close, after a local close() completed, or after an    *)
(* error; the socket is CLOSED and delivers nothing more.                  *)
(***************************************************************************)
AiClose ==
    /\ aiState \in {"OPEN", "CLOSING"}
    /\ aiState' = "CLOSED"
    /\ aiInbound' = FALSE
    /\ lastEvent' = Event("aiClose", NoMsg)
    /\ UNCHANGED << telState, streamSid, timerPending, aiSent, telSent,
                    aiCloseCalls, telMediaIn, startsIn, aiDeltaIn, nMsgs >>

\* mutant of AiError: the handler also closes the telephony socket
AiError_ClosesPeer ==
    /\ aiState \in {"CONNECTING", "OPEN", "CLOSING"}
    /\ aiInbound \/ aiState = "CONNECTING"
    /\ aiState' = "CLOSING"
    /\ aiInbound' = FALSE
    /\ telState' = "CLOSED"
    /\ lastEvent' = Event("aiError", NoMsg)
    /\ UNCHANGED << streamSid, timerPending, aiSent, telSent,
                    aiCloseCalls, telMediaIn, startsIn, aiDeltaIn, nMsgs >>

(***************************************************************************)
(* openAiWs.on('error'), index.js:165-167: log only.  ws emits 'error'     *)
(* with the socket already CLOSING (failed handshake, protocol error) and  *)
(* stops delivering messages; 'close' follows.                             *)
(***************************************************************************)
AiError ==
    /\ aiState \in {"CONNECTING", "OPEN", "CLOSING"}
    /\ aiInbound \/ aiState = "CONNECTING"
    /\ aiState' = "CLOSING"
    /\ aiInbound' = FALSE
    /\ lastEvent' = Event("aiError", NoMsg)
    /\ UNCHANGED << telState, streamSid, timerPending, aiSent, telSent,
                    aiCloseCalls, telMediaIn, startsIn, aiDeltaIn, nMsgs >>

(***************************************************************************)
(* A transport error on the telephony socket.  index.js registers no       *)
(* 'error' listener on `connection` (index.js:126-158 register 'message'   *)
(* and 'close' only), so no code of the session runs; the listener that    *)
(* @fastify/websocket attaches to every accepted socket consumes the event *)
(* and the process lives on.  The socket is CLOSING, delivers no more      *)
(* messages, and its 'close' event follows.                                *)
(***************************************************************************)
TelError ==
    /\ telState = "OPEN"
    /\ telState' = "CLOSING"
    /\ lastEvent' = Event("telError", NoMsg)
    /\ UNCHANGED << aiState, aiInbound, streamSid, timerPending, aiSent,
                    telSent, aiCloseCalls, telMediaIn, startsIn, aiDeltaIn,
                    nMsgs >>

\* one callback of the session runs
SessionStep ==
    \/ AiOpen
    \/ SendSessionUpdate
    \/ \E m \in AiMsgs : AiMessage(m)
    \/ \E m \in TelMsgs : TelMessage(m)
    \/ TelClose
    \/ AiClose
    \/ AiError
    \/ TelError

\* one session, in a process that keeps listening
Next ==
    \/ AiOpen /\ UNCHANGED << proc, peer >>
    \/ SendSessionUpdate /\ UNCHANGED << proc, peer >>
    \/ \E m \in AiMsgs : AiMessage(m) /\ UNCHANGED << proc, peer >>
    \/ \E m \in TelMsgs : TelMessage(m) /\ UNCHANGED << proc, peer >>
    \/ TelClose /\ UNCHANGED << proc, peer >>
    \/ AiClose /\ UNCHANGED << proc, peer >>
    \/ AiError /\ UNCHANGED << proc, peer >>
    \/ TelError /\ UNCHANGED << proc, peer >>

Spec == Init /\ [][Next]_vars

(***************************************************************************)
(* The base64 round trip of index.js:116 on every `delta` string of up to  *)
(* MaxDeltaLen characters: letters of the standard alphabet, the padding   *)
(* character, a URL-safe character and a blank.  The session opens its AI  *)
(* socket and handles one response.audio.delta event.                      *)
(***************************************************************************)
CodecChars == {"Q", "U", "J", "D", "R", "=", "-", " "}

CodecDeltas == UNION { [1..k -> CodecChars] : k \in 0..MaxDeltaLen }

CodecDelta(d) == AiMessage(AiMsg("object", "response.audio.delta", TRUE, d))

NextCodec ==
    \/ AiOpen /\ UNCHANGED << proc, peer >>
    \/ SendSessionUpdate /\ UNCHANGED << proc, peer >>
    \/ /\ aiInbound /\ telSent = <<>>
       /\ \E d \in CodecDeltas : CodecDelta(d) /\ UNCHANGED << proc, peer >>

SpecCodec == Init /\ [][NextCodec]_vars

(***************************************************************************)
(* Two concurrent sessions.  Each run of the route handler (index.js:63)   *)
(* creates its own openAiWs, streamSid and callbacks; the callbacks below  *)
(* are those of index.js:94-167 as functions of one closure's state `s`.   *)
(* Module scope holds constants only (index.js:12, 25-38).                 *)
(***************************************************************************)
\* openAiWs.on('open'), index.js:94-97
SessAiOpen(s) ==
    [s EXCEPT !.aiState = "OPEN", !.aiInbound = TRUE, !.timerPending = TRUE]

\* sendSessionUpdate run by the timer, index.js:75-91
SessSendSessionUpdate(s) ==
    [s EXCEPT !.timerPending = FALSE,
              !.aiSent = Append(@, [type |-> sessionUpdate.type,
                                    audio |-> sessionUpdate.audio,
                                    at |-> s.aiState])]

\* openAiWs.on('message'), index.js:100-123
SessAiMessage(s, m) ==
    LET n == [s EXCEPT !.nMsgs = @ + 1]
        f == audioDelta(s.streamSid, m.val)
    IN  IF ~ParseThrows(m) /\ IsAudioDelta(m)
          THEN [n EXCEPT !.telSent =
                   Append(@, [event |-> f.event, streamSid |-> f.streamSid,
                              payload |-> f.payload, at |-> s.telState])]
          ELSE n

\* connection.on('message'), index.js:126-152
SessTelMessage(s, m) ==
    LET n == [s EXCEPT !.nMsgs = @ + 1]
        a == audioAppend(m.val)
    IN  IF ParseThrows(m) THEN n
        ELSE IF m.tag = "media" THEN
            IF IsOpen(s.aiState) /\ m.hasBody
              THEN [n EXCEPT !.aiSent =
                       Append(@, [type |-> a.type, audio |-> a.audio,
                                  at |-> s.aiState])]
              ELSE n
        ELSE IF m.tag = "start" THEN
            IF m.hasBody THEN [n EXCEPT !.streamSid = m.val] ELSE n
        ELSE n

\* connection.on('close'), index.js:155-158
SessTelClose(s) ==
    IF IsOpen(s.aiState)
      THEN [s EXCEPT !.telState = "CLOSED", !.aiState = "CLOSING",
                     !.aiCloseCalls = @ + 1]
      ELSE [s EXCEPT !.telState = "CLOSED"]

\* openAiWs.on('close'), index.js:161-163
SessAiClose(s) == [s EXCEPT !.aiState = "CLOSED", !.aiInbound = FALSE]

\* everything that belongs to the first session
sessVars == << aiState, aiInbound, telState, streamSid, timerPending, aiSent,
               telSent, aiCloseCalls, telMediaIn, startsIn, aiDeltaIn,
               lastEvent, nMsgs >>

\* messages of the two sessions: each side has its own stream id and audio
TwoTelMsgs ==
    { TelMsg("object", "start", TRUE, "SD123"),
      TelMsg("object", "media", TRUE, "AAAA") }

TwoAiMsgs == { AiMsg("object", "response.audio.delta", TRUE, <<"Q", "U", "J", "D">>) }

PeerTelMsgs ==
    { TelMsg("object", "start", TRUE, "SD789"),
      TelMsg("object", "media", TRUE, "BBBB") }

PeerAiMsgs == { AiMsg("object", "response.audio.delta", TRUE, <<"Q", "Q">>) }

\* the route handler runs for a second connection, index.js:63-73
PeerAccept ==
    /\ proc.phase = "listening"
    /\ peer = NoSession
    /\ peer' = NewSession
    /\ UNCHANGED << sessVars, proc >>

PeerAiOpen ==
    /\ peer.aiState = "CONNECTING"
    /\ peer' = SessAiOpen(peer)
    /\ UNCHANGED << sessVars, proc >>

PeerSendSessionUpdate ==
    /\ peer.timerPending
    /\ peer' = SessSendSessionUpdate(peer)
    /\ UNCHANGED << sessVars, proc >>

PeerAiMessage(m) ==
    /\ peer.aiInbound
    /\ peer.nMsgs < MaxPeerMsgs
    /\ peer' = SessAiMessage(peer, m)
    /\ UNCHANGED << sessVars, proc >>

\* mutant of PeerTelMessage: streamSid is declared at module scope, outside
\* the route handler, so every session writes the same variable
PeerTelMessage_SharedSid(m) ==
    /\ peer.telState = "OPEN"
    /\ peer.nMsgs < MaxPeerMsgs
    /\ peer' = [SessTelMessage(peer, m) EXCEPT !.streamSid = peer.streamSid]
    /\ streamSid' = SessTelMessage([peer EXCEPT !.streamSid = streamSid], m).streamSid
    /\ UNCHANGED << aiState, aiInbound, telState, timerPending, aiSent,
                    telSent, aiCloseCalls, telMediaIn, startsIn, aiDeltaIn,
                    lastEvent, nMsgs, proc >>

PeerTelMessage(m) ==
    /\ peer.telState = "OPEN"
    /\ peer.nMsgs < MaxPeerMsgs
    /\ peer' = SessTelMessage(peer, m)
    /\ UNCHANGED << sessVars, proc >>

PeerTelClose ==
    /\ peer.telState = "OPEN"
    /\ peer' = SessTelClose(peer)
    /\ UNCHANGED << sessVars, proc >>

PeerAiClose ==
    /\ peer.aiState \in {"OPEN", "CLOSING"}
    /\ peer' = SessAiClose(peer)
    /\ UNCHANGED << sessVars, proc >>

NextTwo ==
    \/ AiOpen /\ UNCHANGED << proc, peer >>
    \/ SendSessionUpdate /\ UNCHANGED << proc, peer >>
    \/ /\ nMsgs < MaxPeerMsgs
       /\ \E m \in TwoAiMsgs : AiMessage(m) /\ UNCHANGED << proc, peer >>
    \/ /\ nMsgs < MaxPeerMsgs
       /\ \E m \in TwoTelMsgs : TelMessage(m) /\ UNCHANGED << proc, peer >>
    \/ TelClose /\ UNCHANGED << proc, peer >>
    \/ AiClose /\ UNCHANGED << proc, peer >>
    \/ PeerAccept
    \/ PeerAiOpen
    \/ PeerSendSessionUpdate
    \/ \E m \in PeerAiMsgs : PeerAiMessage(m)
    \/ \E m \in PeerTelMsgs : PeerTelMessage(m)
    \/ PeerTelClose
    \/ PeerAiClose

SpecTwo == Init /\ [][NextTwo]_vars

(***************************************************************************)
(* Process start-up, index.js:12-22 and 171-177.  `proc.hasKey` says       *)
(* whether process.env.OPENAI_API_KEY is a non-empty string; the route     *)
(* handler (index.js:63) can only run once the listener is bound.          *)
(***************************************************************************)
Booting(hasKey) == [phase |-> "boot", hasKey |-> hasKey, exitCode |-> 0]

InitBoot ==
    /\ proc \in { Booting(h) : h \in BOOLEAN }
    /\ peer = NoSession
    /\ aiState = "NONE"
    /\ telState = "NONE"
    /\ aiInbound = FALSE
    /\ streamSid = Null
    /\ timerPending = FALSE
    /\ aiSent = <<>>
    /\ telSent = <<>>
    /\ aiCloseCalls = 0
    /\ telMediaIn = <<>>
    /\ startsIn = <<>>
    /\ aiDeltaIn = <<>>
    /\ lastEvent = [src |-> "boot", msg |-> NoMsg, aiAt |-> "NONE"]
    /\ nMsgs = 0

\* mutant of CheckKey: a missing key is reported and start-up goes on
CheckKey_LogOnly ==
    /\ proc.phase = "boot"
    /\ proc' = [proc EXCEPT !.phase = "configured"]
    /\ UNCHANGED << sessVars, peer >>

\* index.js:12-22: if (!OPENAI_API_KEY) { console.error; process.exit(1) },
\* otherwise the server object is created and the routes are registered
CheckKey ==
    /\ proc.phase = "boot"
    /\ proc' = IF ~proc.hasKey
                 THEN [proc EXCEPT !.phase = "exited", !.exitCode = 1]
                 ELSE [proc EXCEPT !.phase = "configured"]
    /\ UNCHANGED << sessVars, peer >>

\* index.js:171-177: fastify.listen; the callback gets err when the bind
\* fails and then calls process.exit(1)
Listen(err) ==
    /\ proc.phase = "configured"
    /\ proc' = IF err
                 THEN [proc EXCEPT !.phase = "exited", !.exitCode = 1]
                 ELSE [proc EXCEPT !.phase = "listening"]
    /\ UNCHANGED << sessVars, peer >>

\* index.js:63-73: a telephony connection is accepted and the route handler
\* runs: the AI socket is constructed, streamSid = null
Accept ==
    /\ proc.phase = "listening"
    /\ telState = "NONE"
    /\ telState' = "OPEN"
    /\ aiState' = "CONNECTING"
    /\ lastEvent' = [src |-> "init", msg |-> NoMsg, aiAt |-> "CONNECTING"]
    /\ UNCHANGED << aiInbound, streamSid, timerPending, aiSent, telSent,
                    aiCloseCalls, telMediaIn, startsIn, aiDeltaIn, nMsgs,
                    proc, peer >>

NextBoot ==
    \/ CheckKey
    \/ \E err \in BOOLEAN : Listen(err)
    \/ Accept
    \/ AiOpen /\ UNCHANGED << proc, peer >>
    \/ SendSessionUpdate /\ UNCHANGED << proc, peer >>
    \/ \E m \in TwoAiMsgs : AiMessage(m) /\ UNCHANGED << proc, peer >>
    \/ \E m \in TwoTelMsgs : TelMessage(m) /\ UNCHANGED << proc, peer >>
    \/ TelClose /\ UNCHANGED << proc, peer >>
    \/ AiClose /\ UNCHANGED << proc, peer >>
    \/ AiError /\ UNCHANGED << proc, peer >>
    \/ TelError /\ UNCHANGED << proc, peer >>

SpecBoot == InitBoot /\ [][NextBoot]_vars

\* the timer always runs: Node fires an armed timeout while the process lives
FairSpec == Spec /\ WF_vars(SendSessionUpdate /\ UNCHANGED << proc, peer >>)

TypeOK ==
    /\ aiState \in ReadyStates
    /\ aiInbound \in BOOLEAN
    /\ telState \in {"OPEN", "CLOSING", "CLOSED"}
    /\ streamSid \in Sids \cup {Null}
    /\ timerPending \in BOOLEAN
    /\ aiCloseCalls \in 0..1
    /\ nMsgs \in 0..MaxMsgs
    /\ Len(aiSent) <= MaxMsgs + 1
    /\ Len(telSent) <= MaxMsgs
    /\ proc = Listening
    /\ peer = NoSession

(***************************************************************************)
(* Observations used by the properties.                                    *)
(***************************************************************************)
\* the step just taken handled one inbound message from `src`
MsgStep(src) == nMsgs' = nMsgs + 1 /\ lastEvent'.src = src

\* ... a telephony event {event: tag, ...}
TelEventStep(tag) ==
    /\ MsgStep("tel")
    /\ lastEvent'.msg.shape = "object"
    /\ lastEvent'.msg.tag = tag

\* ... an AI response.audio.delta event with a non-empty delta
AiDeltaStep ==
    /\ MsgStep("ai")
    /\ lastEvent'.msg.shape = "object"
    /\ lastEvent'.msg.tag = "response.audio.delta"
    /\ lastEvent'.msg.hasBody
    /\ lastEvent'.msg.val # <<>>

\* the last callback was a telephony event {event: tag, <tag>: {...}}
LastTelEvent(tag) ==
    /\ lastEvent.src = "tel"
    /\ lastEvent.msg.shape = "object"
    /\ lastEvent.msg.tag = tag
    /\ lastEvent.msg.hasBody

LastAiDelta ==
    /\ lastEvent.src = "ai"
    /\ lastEvent.msg.shape = "object"
    /\ lastEvent.msg.tag = "response.audio.delta"
    /\ lastEvent.msg.hasBody
    /\ lastEvent.msg.val # <<>>

Appends(log) == SelectSeq(log, LAMBDA e : e.type = "input_audio_buffer.append")

SessionUpdates(log) == SelectSeq(log, LAMBDA e : e.type = "session.update")

\* media events that arrived while the AI socket was OPEN
ArrivedReady(log) == SelectSeq(log, LAMBDA e : e.at = "OPEN")

\* stream id carried by the most recent start event, null before the first
LatestStart == IF startsIn = <<>> THEN Null ELSE startsIn[Len(startsIn)]

(***************************************************************************)
(* C1: a telephony media event that arrives while the AI socket is not     *)
(* OPEN sends nothing to the AI socket, and it is not queued: at every     *)
(* moment the number of input_audio_buffer.append sends equals the number  *)
(* of media events that arrived while the socket was OPEN, so no dropped   *)
(* frame is ever sent later.                                               *)
(***************************************************************************)
C1_DropWhenNotReady ==
    /\ [][TelEventStep("media") /\ aiState # "OPEN" => aiSent' = aiSent]_vars
    /\ [](Len(Appends(aiSent)) = Len(ArrivedReady(telMediaIn)))

\* a frame was dropped, the AI socket opened, and the same payload, arriving
\* again, was the only one forwarded
C1_Witness ==
    /\ Len(telMediaIn) = 2
    /\ telMediaIn[1].at = "CONNECTING"
    /\ telMediaIn[2].at = "OPEN"
    /\ telMediaIn[1].payload = "AAAA"
    /\ telMediaIn[2].payload = "AAAA"
    /\ Len(Appends(aiSent)) = 1

(***************************************************************************)
(* C2: a telephony media event that arrives while the AI socket is OPEN    *)
(* makes exactly one send on the AI socket, an input_audio_buffer.append   *)
(* whose audio is the event's media.payload.                               *)
(***************************************************************************)
C2_ForwardWhenReady ==
    [][TelEventStep("media") /\ lastEvent'.msg.hasBody /\ aiState = "OPEN"
         => aiSent' = Append(aiSent,
                             [type |-> "input_audio_buffer.append",
                              audio |-> lastEvent'.msg.val,
                              at |-> "OPEN"])]_vars

C2_Witness ==
    /\ LastTelEvent("media")
    /\ lastEvent.aiAt = "OPEN"
    /\ lastEvent.msg.val = "QUJD"
    /\ aiSent # <<>>
    /\ aiSent[Len(aiSent)].audio = "QUJD"

(***************************************************************************)
(* C3: an AI response.audio.delta with a non-empty delta makes exactly one *)
(* send on the telephony socket, a media frame whose streamSid is the one  *)
(* carried by the most recent telephony start event.                       *)
(***************************************************************************)
C3_OneFrameWithLatestSid ==
    [][AiDeltaStep
         => /\ Len(telSent') = Len(telSent) + 1
            /\ SubSeq(telSent', 1, Len(telSent)) = telSent
            /\ telSent'[Len(telSent')].event = "media"
            /\ telSent'[Len(telSent')].streamSid = LatestStart]_vars

\* two start events with different ids, then a delta: the frame carries the
\* second id
C3_Witness ==
    /\ LastAiDelta
    /\ Len(startsIn) = 2
    /\ startsIn[1] = "SD123"
    /\ startsIn[2] = "SD456"
    /\ Len(telSent) = 1
    /\ telSent[1].streamSid = "SD456"

(***************************************************************************)
(* C4: every media frame sent to the telephony socket carries a set        *)
(* (non-null) streamSid.                                                   *)
(***************************************************************************)
C4_FramesCarrySid ==
    \A i \in DOMAIN telSent : telSent[i].streamSid # Null

(***************************************************************************)
(* C5: when the telephony socket closes, an OPEN AI socket is closed       *)
(* exactly once, and from then on nothing is sent, or attempted, on either *)
(* socket.                                                                 *)
(***************************************************************************)
C5_QuietAfterTelephonyClose ==
    /\ [](aiCloseCalls <= 1)
    /\ [][telState = "OPEN" /\ telState' = "CLOSED" /\ aiState = "OPEN"
            => aiCloseCalls' = aiCloseCalls + 1 /\ aiState' # "OPEN"]_vars
    /\ [][telState = "CLOSED" => aiSent' = aiSent /\ telSent' = telSent]_vars

(***************************************************************************)
(* C6: after either socket has closed, the other one is not left open:     *)
(* no state has one socket CLOSED and its peer OPEN.                       *)
(***************************************************************************)
C6_NoDanglingConnection ==
    /\ ~(telState = "CLOSED" /\ aiState = "OPEN")
    /\ ~(aiState = "CLOSED" /\ telState = "OPEN")

(***************************************************************************)
(* C7: the AI socket's close and error callbacks leave the telephony       *)
(* socket as it is; once the AI socket is closing or closed it never       *)
(* reopens, a telephony media event sends nothing to it, and a telephony   *)
(* start event still sets the stream id.                                   *)
(***************************************************************************)
AiDown == aiState \in {"CLOSING", "CLOSED"}

C7_AiCloseLeavesTelephony ==
    [][ /\ (lastEvent'.src \in {"aiClose", "aiError"} => telState' = telState)
        /\ (AiDown => AiDown')
        /\ (AiDown /\ TelEventStep("media") => aiSent' = aiSent)
        /\ (AiDown /\ TelEventStep("start") /\ lastEvent'.msg.hasBody
              => streamSid' = lastEvent'.msg.val) ]_vars

\* the AI socket closed first; afterwards a media event was dropped and a
\* start event set the stream id, the telephony socket still open
C7_Witness ==
    /\ telState = "OPEN"
    /\ aiState = "CLOSED"
    /\ Len(telMediaIn) = 1
    /\ telMediaIn[1].at = "CLOSED"
    /\ Appends(aiSent) = <<>>
    /\ LastTelEvent("start")
    /\ lastEvent.aiAt = "CLOSED"
    /\ streamSid = "SD456"

(***************************************************************************)
(* C8: a message that fails to decode (text that is not JSON, the JSON     *)
(* value null, a media event without `media` or a start event without      *)
(* `start`, on the telephony side; not JSON or null on the AI side) is     *)
(* discarded: nothing is sent, and the stream id, both sockets, the timer  *)
(* and the close count are unchanged, so what follows is handled from the  *)
(* same state as if the message had not arrived.                           *)
(***************************************************************************)
DecodeFailure(e) ==
    \/ e.msg.shape \in {"nonjson", "null"}
    \/ /\ e.src = "tel"
       /\ e.msg.tag \in {"media", "start"}
       /\ ~e.msg.hasBody

C8_DecodeFailureDiscarded ==
    [][(MsgStep("tel") \/ MsgStep("ai")) /\ DecodeFailure(lastEvent')
         => UNCHANGED progVars]_vars

\* a start event without `start` arrived while the AI socket was OPEN and a
\* stream id was set: the id is still there
C8_Witness ==
    /\ lastEvent.src = "tel"
    /\ lastEvent.msg.shape = "object"
    /\ lastEvent.msg.tag = "start"
    /\ ~lastEvent.msg.hasBody
    /\ lastEvent.aiAt = "OPEN"
    /\ telState = "OPEN"
    /\ streamSid = "SD123"

(***************************************************************************)
(* C9, as stated: once the stream id is set, no later event changes it.    *)
(***************************************************************************)
C9_SidImmutableOnceSet ==
    [][streamSid # Null => streamSid' = streamSid]_vars

(***************************************************************************)
(* C9, amended: the stream id is changed by telephony start events only,   *)
(* and every start event that carries a `start` member overwrites it with  *)
(* the id it carries (last write wins).                                    *)
(***************************************************************************)
C9_SidLastWriteWins ==
    [][ /\ (streamSid' # streamSid
              => TelEventStep("start") /\ lastEvent'.msg.hasBody)
        /\ (TelEventStep("start") /\ lastEvent'.msg.hasBody
              => streamSid' = lastEvent'.msg.val) ]_vars

\* a second start event replaced SD123 by SD456
C9_Witness ==
    /\ LastTelEvent("start")
    /\ startsIn = << "SD123", "SD456" >>
    /\ streamSid = "SD456"

(***************************************************************************)
(* C10: session.update is sent at most once, only by the settling timer    *)
(* that the AI socket's open callback armed (so never while the socket is  *)
(* still CONNECTING), and, the timer being fair, once after every open.    *)
(***************************************************************************)
C10_OneSessionUpdateAfterOpen ==
    /\ [](Len(SessionUpdates(aiSent)) <= 1)
    /\ [](\A i \in DOMAIN aiSent :
            aiSent[i].type = "session.update" => aiSent[i].at # "CONNECTING")
    /\ [][Len(SessionUpdates(aiSent')) # Len(SessionUpdates(aiSent))
            => /\ timerPending /\ ~timerPending'
               /\ lastEvent'.src = "timer"
               /\ aiSent' = Append(aiSent, [type |-> "session.update",
                                            audio |-> Undefined,
                                            at |-> aiState])]_vars
    /\ (lastEvent.src = "aiOpen" ~> Len(SessionUpdates(aiSent)) = 1)

\* the timer ran after the open and made the one send
C10_Witness ==
    /\ lastEvent.src = "timer"
    /\ ~timerPending
    /\ Len(SessionUpdates(aiSent)) = 1
    /\ aiSent[1].type = "session.update"
    /\ aiSent[1].at = "OPEN"

(***************************************************************************)
(* C11: each direction forwards in arrival order, one send per event: the  *)
(* audio payloads sent to the AI socket are, in the same order, a          *)
(* subsequence of the media payloads received from telephony, and the i-th *)
(* frame sent to telephony carries the audio of the i-th non-empty AI      *)
(* audio delta.                                                            *)
(***************************************************************************)
RECURSIVE IsSubseq(_, _)
IsSubseq(a, b) ==
    IF a = <<>> THEN TRUE
    ELSE IF b = <<>> THEN FALSE
    ELSE IF Head(a) = Head(b) THEN IsSubseq(Tail(a), Tail(b))
    ELSE IsSubseq(a, Tail(b))

AudioOf(log) == [i \in 1..Len(log) |-> log[i].audio]

PayloadOf(log) == [i \in 1..Len(log) |-> log[i].payload]

C11_ForwardedInOrder ==
    /\ IsSubseq(AudioOf(Appends(aiSent)), PayloadOf(telMediaIn))
    /\ Len(telSent) = Len(aiDeltaIn)
    /\ \A i \in DOMAIN telSent :
          Base64Decode(telSent[i].payload) = Base64Decode(aiDeltaIn[i])

\* two different media payloads were forwarded in arrival order, and a
\* delta produced its frame
C11_Witness ==
    /\ PayloadOf(telMediaIn) = << "AAAA", "QUJD" >>
    /\ AudioOf(Appends(aiSent)) = << "AAAA", "QUJD" >>
    /\ aiDeltaIn = << << "Q", "U", "J", "D" >> >>
    /\ Len(telSent) = 1

(***************************************************************************)
(* C12, as stated: the payload of every frame sent to telephony equals,    *)
(* character for character, the delta of the AI event that produced it.    *)
(***************************************************************************)
C12_PayloadIsDelta ==
    \A i \in DOMAIN telSent :
        i <= Len(aiDeltaIn) => telSent[i].payload = aiDeltaIn[i]

(***************************************************************************)
(* C12, amended: the payload is the canonical base64 text (standard        *)
(* alphabet, padded to a multiple of four, no stray bits) of the bytes the *)
(* delta decodes to; it equals the delta whenever the delta is canonical.  *)
(***************************************************************************)
IsStdChar(c) == \E k \in 1..64 : B64Chars[k] = c

Canonical(s) ==
    LET n == Len(s) IN
    /\ n % 4 = 0
    /\ \A i \in 1..n : IsStdChar(s[i]) \/ (s[i] = "=" /\ i >= n - 1)
    /\ n > 0 /\ s[n - 1] = "=" => s[n] = "=" /\ B64Val(s[n - 2]) % 16 = 0
    /\ n > 0 /\ s[n] = "=" /\ s[n - 1] # "=" => B64Val(s[n - 1]) % 4 = 0

C12_PayloadIsCanonicalDelta ==
    \A i \in DOMAIN telSent :
        i <= Len(aiDeltaIn) =>
            /\ Base64Decode(telSent[i].payload) = Base64Decode(aiDeltaIn[i])
            /\ Canonical(telSent[i].payload)
            /\ (Canonical(aiDeltaIn[i]) => telSent[i].payload = aiDeltaIn[i])

\* a canonical delta with padding went through unchanged
C12_Witness ==
    /\ LastAiDelta
    /\ aiDeltaIn = << << "Q", "Q", "=", "=" >> >>
    /\ Len(telSent) = 1
    /\ telSent[1].payload = << "Q", "Q", "=", "=" >>

(***************************************************************************)
(* C13: with two concurrent sessions, a callback of one session changes    *)
(* nothing of the other (its stream id, its two sockets, what was sent on  *)
(* them, its timer), and every frame carries a stream id of its own        *)
(* session.                                                                *)
(***************************************************************************)
C13_SessionsIsolated ==
    /\ [][ /\ (peer' # peer => UNCHANGED progVars)
           /\ (progVars' # progVars => peer' = peer) ]_vars
    /\ [](\A i \in DOMAIN telSent : telSent[i].streamSid \in {Null, "SD123"})
    /\ [](\A i \in DOMAIN peer.telSent :
             peer.telSent[i].streamSid \in {Null, "SD789"})

\* both sessions are open, each got its own start event and then relayed a
\* frame under its own stream id
C13_Witness ==
    /\ streamSid = "SD123"
    /\ peer.streamSid = "SD789"
    /\ Len(telSent) = 1
    /\ telSent[1].streamSid = "SD123"
    /\ Len(peer.telSent) = 1
    /\ peer.telSent[1].streamSid = "SD789"
    /\ aiState = "OPEN"
    /\ peer.aiState = "OPEN"

(***************************************************************************)
(* C14: an 'error' event on the AI socket or on the telephony socket runs  *)
(* no relay code: the other socket keeps its state (nobody calls close on  *)
(* it), nothing is sent on either socket, the stream id and the pending    *)
(* timer stay as they were, and the process keeps listening.               *)
(***************************************************************************)
ErrorStep(src) == lastEvent'.src = src /\ lastEvent' # lastEvent

C14_ErrorOnlyLogged ==
    [][ /\ (ErrorStep("aiError") =>
              UNCHANGED << telState, streamSid, timerPending, aiSent, telSent,
                           aiCloseCalls, proc >>)
        /\ (ErrorStep("telError") =>
              UNCHANGED << aiState, aiInbound, streamSid, timerPending, aiSent,
                           telSent, aiCloseCalls, proc >>) ]_vars

\* both sockets have reported an error (the AI socket is CLOSING though
\* nobody called close on it), first the AI socket and then the telephony
\* socket, and the stream id set before is still there
C14_Witness ==
    /\ lastEvent.src = "telError"
    /\ aiState = "CLOSING"
    /\ aiCloseCalls = 0
    /\ streamSid = "SD123"
    /\ proc.phase = "listening"

(***************************************************************************)
(* C15: when the API key is missing, the first thing the process does is   *)
(* exit with status 1: it never binds the listener, never accepts a        *)
(* telephony connection and never constructs an AI socket.  A failed bind  *)
(* also ends in exit status 1, and nothing runs after an exit.             *)
(***************************************************************************)
NothingAccepted == telState = "NONE" /\ aiState = "NONE" /\ aiSent = <<>>

C15_StartupFailuresExit ==
    /\ [](~proc.hasKey => proc.phase \in {"boot", "exited"} /\ NothingAccepted)
    /\ [](proc.phase = "exited" => proc.exitCode = 1 /\ NothingAccepted)
    /\ [](~NothingAccepted => proc.phase = "listening")
    /\ [][ /\ (proc.phase = "boot" /\ ~proc.hasKey => proc'.phase = "exited")
           /\ (proc.phase = "configured" => proc'.phase \in {"listening", "exited"})
           /\ proc.phase # "exited" ]_vars

\* the key was missing and the process has exited with status 1
C15_Witness ==
    /\ ~proc.hasKey
    /\ proc.phase = "exited"
    /\ proc.exitCode = 1
    /\ NothingAccepted

(***************************************************************************)
(* C16: a telephony event that parses and whose tag is neither media nor   *)
(* start takes the default branch (index.js:145-147): nothing is sent on   *)
(* either socket, the stream id stays, no socket changes state and no      *)
(* close is called.                                                        *)
(***************************************************************************)
TelOtherStep ==
    /\ MsgStep("tel")
    /\ lastEvent'.msg.shape = "object"
    /\ lastEvent'.msg.tag \notin {"media", "start"}

C16_OtherEventNoEffect == [][TelOtherStep => UNCHANGED progVars]_vars

\* such an event came in mid-call: the AI socket is open, a stream id is set
\* and audio has gone both ways
C16_Witness ==
    /\ lastEvent.src = "tel"
    /\ lastEvent.msg.shape = "object"
    /\ lastEvent.msg.tag = "stop"
    /\ aiState = "OPEN"
    /\ telState = "OPEN"
    /\ streamSid = "SD123"
    /\ Len(Appends(aiSent)) = 1

(***************************************************************************)
(* C17: something is sent on the telephony socket only while handling an   *)
(* AI response.audio.delta event with a non-empty delta; any other AI      *)
(* message sends nothing on either socket and changes no session state; so *)
(* there are never more frames sent than such events received.             *)
(***************************************************************************)
C17_FramesOnlyFromDeltas ==
    /\ [][ /\ (telSent' # telSent => AiDeltaStep)
           /\ (MsgStep("ai") /\ ~AiDeltaStep => UNCHANGED progVars) ]_vars
    /\ [](Len(telSent) <= Len(aiDeltaIn))

\* one audio delta was relayed, and then a response.audio.delta with an
\* empty or missing delta came in and was not
C17_Witness ==
    /\ lastEvent.src = "ai"
    /\ lastEvent.msg.tag = "response.audio.delta"
    /\ ~(lastEvent.msg.hasBody /\ lastEvent.msg.val # <<>>)
    /\ Len(aiDeltaIn) = 1
    /\ Len(telSent) = 1
    /\ nMsgs >= 2

(***************************************************************************)
(* C18 as stated: session.update is the first message sent on the AI       *)
(* socket, no input_audio_buffer.append goes out before it.                *)
(***************************************************************************)
C18_SessionUpdateFirst ==
    aiSent # <<>> => aiSent[1].type = "session.update"

(***************************************************************************)
(* C18 amended: no input_audio_buffer.append is sent before the AI         *)
(* socket's open event: every append is sent on an OPEN socket, and when   *)
(* one has been sent the settling timer is armed or session.update has     *)
(* gone out.  session.update is sent at most once, but not always first:   *)
(* media that arrives during the settling delay is forwarded ahead of it.  *)
(***************************************************************************)
C18_NoAppendBeforeOpen ==
    /\ \A i \in DOMAIN aiSent :
          aiSent[i].type = "input_audio_buffer.append" => aiSent[i].at = "OPEN"
    /\ Appends(aiSent) # <<>> => timerPending \/ SessionUpdates(aiSent) # <<>>
    /\ Len(SessionUpdates(aiSent)) <= 1

\* audio that came in during the settling delay went out before session.update
C18_Witness ==
    /\ Len(aiSent) = 2
    /\ aiSent[1].type = "input_audio_buffer.append"
    /\ aiSent[1].at = "OPEN"
    /\ aiSent[2].type = "session.update"
    /\ aiSent[2].at = "OPEN"

(***************************************************************************)
(* C19: every send on the AI socket is made while the socket is OPEN:      *)
(* each entry of the send log, input_audio_buffer.append or                *)
(* session.update, was sent at readyState OPEN.                            *)
(***************************************************************************)
C19_AiSendsOnlyWhenOpen == \A i \in DOMAIN aiSent : aiSent[i].at = "OPEN"

====
